---- MODULE Spec2Model ----
(***************************************************************************)
(* A model of the LTSV encoder of hnakamur/zap-ltsv (ltsv_encoder.go):     *)
(* pooled ltsvEncoder instances, the typed add operations, Clone and       *)
(* WriteEntry.  Buffers are sequences of bytes (0..255); strings of the    *)
(* program are byte sequences, written here with their text in a comment.  *)
(***************************************************************************)
EXTENDS Integers, Sequences, FiniteSets, TLC

(***************************************************************************)
(* Bounds of the model.                                                    *)
(***************************************************************************)
\* Number of distinct ltsvEncoder objects the pool's New may allocate.
MaxInst == 2
\* Number of operations (calls and call steps) in one behaviour, and in
\* one behaviour of the goroutine that reuses pool objects.
MaxOps == 5
MaxCalls == 6
\* Longest string a function applied on its own is given.
MaxLen == 3
\* Most frames of a stack dump, most bytes of its header line, largest skip count.
MaxFrames == 3
MaxHeader == 2
MaxSkip == 1
\* Deepest nesting of AddMarshaler callbacks on one encoder.
MaxDepth == 2

(***************************************************************************)
(* Bytes the code names.                                                   *)
(***************************************************************************)
TAB == 9
LF == 10
CR == 13
SPACE == 32
QUOTE == 34
COMMA == 44
COLON == 58
BACKSLASH == 92
LBRACE == 123
RBRACE == 125
RuneSelf == 128
LBRACKET == 91
RBRACKET == 93
DOT == 46

\* _hex = "0123456789abcdef"
_hex == <<48, 49, 50, 51, 52, 53, 54, 55, 56, 57, 97, 98, 99, 100, 101, 102>>

\* The layouts of package time the program and its tests name; a layout is
\* an opaque string to the encoder, which only compares it with "".
RFC3339 == "2006-01-02T15:04:05Z07:00"
RFC822 == "02 Jan 06 15:04 MST"

\* zap.Level values (zap's level.go: DebugLevel = iota - 1, ...).
DebugLevel == 0 - 1
InfoLevel == 0
WarnLevel == 1
ErrorLevel == 2
PanicLevel == 3
FatalLevel == 4

(***************************************************************************)
(* Sequence helpers.                                                       *)
(***************************************************************************)
RECURSIVE Flatten(_)
Flatten(ss) == IF ss = <<>> THEN <<>> ELSE Head(ss) \o Flatten(Tail(ss))

Count(s, b) == Cardinality({n \in 1..Len(s) : s[n] = b})

\* strconv.AppendInt(dst, val, 10): minimal decimal digits, '-' for negatives.
RECURSIVE Digits(_)
Digits(n) == IF n < 10 THEN <<48 + n>> ELSE Digits(n \div 10) \o <<48 + (n % 10)>>

AppendInt(dst, val) == IF val < 0 THEN dst \o <<45>> \o Digits(0 - val) ELSE dst \o Digits(val)

(***************************************************************************)
(* strings.Replacer with single-byte old strings: every byte that is an    *)
(* old string is replaced by its new string, every other byte is copied.   *)
(***************************************************************************)
\* A replacer that leaves the carriage return alone.
StdReplacer_NoCR == << <<TAB, <<BACKSLASH, 116>> >>, <<LF, <<BACKSLASH, 110>> >> >>

\* strings.NewReplacer("\t", "\\t", "\n", "\\n", "\r", "\\r")
StdReplacer == << <<TAB, <<BACKSLASH, 116>> >>, <<LF, <<BACKSLASH, 110>> >>, <<CR, <<BACKSLASH, 114>> >> >>

ReplaceByte(r, b) ==
  IF \E n \in 1..Len(r) : r[n][1] = b
  THEN r[CHOOSE n \in 1..Len(r) : r[n][1] = b /\ \A m \in 1..(n - 1) : r[m][1] # b][2]
  ELSE <<b>>

Replace(r, s) == Flatten([n \in 1..Len(s) |-> ReplaceByte(r, s[n])])

(***************************************************************************)
(* utf8.DecodeRuneInString restricted to what safeAddJSONString reads of   *)
(* it: the size of the rune starting at s[i], 0 standing for the invalid   *)
(* byte (RuneError with size 1).  s[i] >= RuneSelf here.                    *)
(***************************************************************************)
IsCont(s, n) == n <= Len(s) /\ s[n] >= 128 /\ s[n] <= 191

RuneSize(s, i) ==
  LET b == s[i]
      InRange(n, lo, hi) == n <= Len(s) /\ s[n] >= lo /\ s[n] <= hi
  IN  IF b >= 194 /\ b <= 223 THEN (IF IsCont(s, i + 1) THEN 2 ELSE 0)
      ELSE IF b >= 224 /\ b <= 239
      THEN (IF /\ InRange(i + 1, IF b = 224 THEN 160 ELSE 128, IF b = 237 THEN 159 ELSE 191)
               /\ IsCont(s, i + 2)
            THEN 3 ELSE 0)
      ELSE IF b >= 240 /\ b <= 244
      THEN (IF /\ InRange(i + 1, IF b = 240 THEN 144 ELSE 128, IF b = 244 THEN 143 ELSE 191)
               /\ IsCont(s, i + 2)
               /\ IsCont(s, i + 3)
            THEN 4 ELSE 0)
      ELSE 0

\* A variant of JSONAscii that copies the control bytes it has no short escape for.
JSONAscii_RawControl(b) ==
  IF b = BACKSLASH \/ b = QUOTE THEN <<BACKSLASH, b>>
  ELSE IF b = LF THEN <<BACKSLASH, 110>>
  ELSE IF b = CR THEN <<BACKSLASH, 114>>
  ELSE IF b = TAB THEN <<BACKSLASH, 116>>
  ELSE <<b>>

\* The bytes safeAddJSONString appends for the ASCII byte b.
JSONAscii(b) ==
  IF 32 <= b /\ b # BACKSLASH /\ b # QUOTE THEN <<b>>
  ELSE IF b = BACKSLASH \/ b = QUOTE THEN <<BACKSLASH, b>>
  ELSE IF b = LF THEN <<BACKSLASH, 110>>
  ELSE IF b = CR THEN <<BACKSLASH, 114>>
  ELSE IF b = TAB THEN <<BACKSLASH, 116>>
  ELSE <<BACKSLASH, 117, 48, 48, _hex[(b \div 16) + 1], _hex[(b % 16) + 1]>>

\* The loop of safeAddJSONString from cursor i on.
RECURSIVE JSONFrom(_, _)
JSONFrom(s, i) ==
  IF i > Len(s) THEN <<>>
  ELSE IF s[i] < RuneSelf THEN JSONAscii(s[i]) \o JSONFrom(s, i + 1)
  ELSE IF RuneSize(s, i) = 0 THEN <<BACKSLASH, 117, 102, 102, 102, 100>> \o JSONFrom(s, i + 1)
  ELSE SubSeq(s, i, i + RuneSize(s, i) - 1) \o JSONFrom(s, i + RuneSize(s, i))

(***************************************************************************)
(* package time: Time.AppendFormat for the instants and layouts of the     *)
(* model (instants are seconds since the epoch, in UTC).                   *)
(***************************************************************************)
Times == {0}

FormatTime(t, layout) ==
  CASE layout = RFC3339 /\ t = 0 ->
         \* "1970-01-01T00:00:00Z"
         <<49, 57, 55, 48, 45, 48, 49, 45, 48, 49, 84, 48, 48, 58, 48, 48, 58, 48, 48, 90>>
    [] layout = RFC822 ->
         \* "01 Jan 70 00:00 UTC"
         <<48, 49, 32, 74, 97, 110, 32, 55, 48, 32, 48, 48, 58, 48, 48, 32, 85, 84, 67>>
    [] OTHER -> <<>>

(***************************************************************************)
(* The ltsvEncoder struct and the functions on it.  An encoder is a        *)
(* record; a method with receiver enc is an operator from the record       *)
(* before the call to the record after it.                                 *)
(***************************************************************************)
\* "time", "level", "msg": the labels set by ltsvPool.New.
LabelTime == <<116, 105, 109, 101>>
LabelLevel == <<108, 101, 118, 101, 108>>
LabelMsg == <<109, 115, 103>>

\* The object ltsvPool.New allocates.
ltsvPoolNew ==
  [bytes |-> <<>>, timeLabel |-> LabelTime, timeFmt |-> "", levelLabel |-> LabelLevel,
   messageLabel |-> LabelMsg, nestedLevel |-> 0, replacer |-> StdReplacer]

append(e, bs) == [e EXCEPT !.bytes = @ \o bs]

truncate(e) == [e EXCEPT !.bytes = <<>>]

safeAddString(e, s) == append(e, Replace(e.replacer, s))

safeAddJSONString(e, s) == append(e, JSONFrom(s, 1))

addKey(e, key) ==
  IF e.nestedLevel > 0
  THEN LET last == Len(e.bytes) - 1
           e1 == IF last >= 0 /\ e.bytes[last + 1] # LBRACE THEN append(e, <<COMMA>>) ELSE e
       IN  append(safeAddJSONString(append(e1, <<QUOTE>>), key), <<QUOTE, COLON>>)
  ELSE LET e1 == IF Len(e.bytes) > 0 THEN append(e, <<TAB>>) ELSE e
       IN  append(safeAddString(e1, key), <<COLON>>)

\* A variant of AddString that takes no notice of the nesting.
AddString_AlwaysSimple(e, key, val) == safeAddString(addKey(e, key), val)

AddString(e, key, val) ==
  LET e1 == addKey(e, key)
  IN  IF e1.nestedLevel > 0
      THEN append(safeAddJSONString(append(e1, <<QUOTE>>), val), <<QUOTE>>)
      ELSE safeAddString(e1, val)

AddInt64(e, key, val) == LET e1 == addKey(e, key) IN [e1 EXCEPT !.bytes = AppendInt(@, val)]

\* AddMarshaler up to the call of obj.MarshalLog(enc) ...
AddMarshalerEnter(e, key) ==
  LET e1 == addKey(e, key)
  IN  append([e1 EXCEPT !.nestedLevel = @ + 1], <<LBRACE>>)

\* A variant of AddMarshalerExit that closes the object only when MarshalLog succeeded.
AddMarshalerExit_NoCloseOnError(e, err) ==
  IF err # "nil" THEN [e EXCEPT !.nestedLevel = @ - 1]
  ELSE [append(e, <<RBRACE>>) EXCEPT !.nestedLevel = @ - 1]

\* ... and from the return of obj.MarshalLog(enc), with err, on.
AddMarshalerExit(e, err) == [append(e, <<RBRACE>>) EXCEPT !.nestedLevel = @ - 1]

\* The value AddMarshaler returns when MarshalLog returned err.
AddMarshalerReturn(err) == err

\* A variant of Clone that appends to what the pooled object holds.
Clone_NoTruncate(e, clone) ==
  [append(clone, e.bytes) EXCEPT
     !.timeLabel = e.timeLabel, !.timeFmt = e.timeFmt, !.levelLabel = e.levelLabel,
     !.messageLabel = e.messageLabel, !.nestedLevel = e.nestedLevel, !.replacer = e.replacer]

\* Clone: the object got from the pool (clone) after the assignments.
Clone(e, clone) ==
  [append(truncate(clone), e.bytes) EXCEPT
     !.timeLabel = e.timeLabel, !.timeFmt = e.timeFmt, !.levelLabel = e.levelLabel,
     !.messageLabel = e.messageLabel, !.nestedLevel = e.nestedLevel, !.replacer = e.replacer]

\* A variant of LevelBytes without the case for zap.FatalLevel.
LevelBytes_NoFatal(lvl) ==
  CASE lvl = DebugLevel -> <<68>>
    [] lvl = InfoLevel -> <<73>>
    [] lvl = WarnLevel -> <<87>>
    [] lvl = ErrorLevel -> <<69>>
    [] lvl = PanicLevel -> <<80>>
    [] OTHER -> AppendInt(<<>>, lvl)

LevelBytes(lvl) ==
  CASE lvl = DebugLevel -> <<68>>
    [] lvl = InfoLevel -> <<73>>
    [] lvl = WarnLevel -> <<87>>
    [] lvl = ErrorLevel -> <<69>>
    [] lvl = PanicLevel -> <<80>>
    [] lvl = FatalLevel -> <<70>>
    [] OTHER -> AppendInt(<<>>, lvl)

addLevel(e, final, lvl) == append(addKey(final, e.levelLabel), LevelBytes(lvl))

\* A variant of addTime that never writes the time field.
addTime_Never(e, final, t) == final

addTime(e, final, t) ==
  IF e.timeFmt = "" THEN final
  ELSE append(addKey(final, e.timeLabel), FormatTime(t, e.timeFmt))

\* A variant of addMessage that appends the message as it is.
addMessage_Raw(e, final, msg) == append(addKey(final, e.messageLabel), msg)

addMessage(e, final, msg) == safeAddString(addKey(final, e.messageLabel), msg)

\* A variant of WriteEntryFinal that appends the collected fields without the tab.
WriteEntryFinal_NoTab(e, final, msg, lvl, t) ==
  LET f1 == addMessage(e, addLevel(e, addTime(e, truncate(final), t), lvl), msg)
  IN  append(append(f1, e.bytes), <<LF>>)

\* WriteEntry from final.truncate() to the append of '\n': the temporary
\* encoder as it is when handed to sink.Write.
WriteEntryFinal(e, final, msg, lvl, t) ==
  LET f1 == addMessage(e, addLevel(e, addTime(e, truncate(final), t), lvl), msg)
      f2 == IF Len(e.bytes) > 0 THEN append(append(f1, <<TAB>>), e.bytes) ELSE f1
  IN  append(f2, <<LF>>)

\* A variant of WriteEntryResult that looks at the byte count first.
WriteEntryResult_CountFirst(n, err, expectedBytes) ==
  IF n # expectedBytes THEN "incomplete write"
  ELSE IF err # "nil" THEN err
  ELSE "nil"

\* What WriteEntry returns after sink.Write returned (n, err).
WriteEntryResult(n, err, expectedBytes) ==
  IF err # "nil" THEN err
  ELSE IF n # expectedBytes THEN "incomplete write"
  ELSE "nil"

(***************************************************************************)
(* formatStacktraceInOneLine.  buf and p are slices of one array: buf is    *)
(* array[off:], what is left to read, and p is array[:len(p)] as long as   *)
(* it fits, so that an append to p writes over the bytes of the array it   *)
(* covers, read or not.  The record keeps the array, off and p.            *)
(***************************************************************************)
\* buf := []byte(s); p := buf[:0]
stackStart(s) == [array |-> s, off |-> 0, p |-> <<>>]

buf(st) == SubSeq(st.array, st.off + 1, Len(st.array))

\* bytes.IndexByte(b, c)
IndexByte(b, c) ==
  IF \E n \in 1..Len(b) : b[n] = c
  THEN (CHOOSE n \in 1..Len(b) : b[n] = c /\ \A m \in 1..(n - 1) : b[m] # c) - 1
  ELSE 0 - 1

\* p = append(p, x...)
appendP(st, x) ==
  [st EXCEPT !.p = @ \o x,
             !.array = [q \in 1..Len(st.array) |->
                          IF q > Len(st.p) /\ q <= Len(st.p) + Len(x) THEN x[q - Len(st.p)]
                          ELSE st.array[q]]]

\* buf = buf[n:]
advance(st, n) == [st EXCEPT !.off = @ + n]

\* buffer_too_small: what is returned
bufferTooSmall(st) == appendP(appendP(st, buf(st)), <<DOT, DOT, DOT>>).p

\* The second loop, from its test on.
RECURSIVE frameLoop(_)
frameLoop(st) ==
  IF Len(buf(st)) = 0 THEN st.p
  ELSE LET s1 == appendP(st, <<LBRACKET>>)
           i == IndexByte(buf(s1), LF)
       IN  IF i = 0 - 1 THEN bufferTooSmall(s1)
           ELSE LET s2 == appendP(appendP(s1, SubSeq(buf(s1), 1, i)), <<SPACE>>)
                IN  IF i + 2 > Len(buf(s2)) THEN bufferTooSmall(s2)
                    ELSE LET s3 == advance(s2, i + 2)
                             k == IndexByte(buf(s3), LF)
                         IN  IF k = 0 - 1 THEN bufferTooSmall(s3)
                             ELSE LET s4 == appendP(appendP(s3, SubSeq(buf(s3), 1, k)), <<RBRACKET>>)
                                  IN  IF k + 1 > Len(buf(s4)) THEN bufferTooSmall(s4)
                                      ELSE LET s5 == advance(s4, k + 1)
                                           IN  frameLoop(IF Len(buf(s5)) > 0 THEN appendP(s5, <<COMMA>>) ELSE s5)

\* The first loop from j on, and what follows it.
RECURSIVE skipLoop(_, _, _)
skipLoop(st, j, skip) ==
  IF j < 1 + 2 * skip
  THEN LET i == IndexByte(buf(st), LF)
       IN  IF i = 0 - 1 \/ i + 1 > Len(buf(st)) THEN bufferTooSmall(st)
           ELSE skipLoop(advance(st, i + 1), j + 1, skip)
  ELSE frameLoop(st)

formatStacktraceInOneLine(skip, s) == skipLoop(stackStart(s), 0, skip)

(***************************************************************************)
(* Options.                                                                *)
(***************************************************************************)
LTSVTimeFormat(layout) == [name |-> "LTSVTimeFormat", layout |-> layout, label |-> <<>>]
LTSVNoTime == LTSVTimeFormat("")
LTSVTimeLabel(label) == [name |-> "LTSVTimeLabel", layout |-> "", label |-> label]
LTSVLevelLabel(label) == [name |-> "LTSVLevelLabel", layout |-> "", label |-> label]
LTSVNoLevel == LTSVLevelLabel(<<>>)
LTSVMessageLabel(label) == [name |-> "LTSVMessageLabel", layout |-> "", label |-> label]

apply(opt, e) ==
  CASE opt.name = "LTSVTimeFormat" -> [e EXCEPT !.timeFmt = opt.layout]
    [] opt.name = "LTSVTimeLabel" -> [e EXCEPT !.timeLabel = opt.label]
    [] opt.name = "LTSVLevelLabel" -> [e EXCEPT !.levelLabel = opt.label]
    [] opt.name = "LTSVMessageLabel" -> [e EXCEPT !.messageLabel = opt.label]

RECURSIVE applyAll(_, _)
applyAll(options, e) ==
  IF options = <<>> THEN e ELSE applyAll(Tail(options), apply(Head(options), e))

\* NewLTSVEncoder on the object got from the pool.
NewLTSVEncoder(got, options) == applyAll(options, [truncate(got) EXCEPT !.timeFmt = RFC3339])

(***************************************************************************)
(* The state machine: callers (goroutines) check encoders out of ltsvPool, *)
(* add fields to the encoders they hold, clone them, write entries and     *)
(* free them.  A caller works on the encoders it holds only, and does not  *)
(* use an encoder after freeing it.                                        *)
(***************************************************************************)
\* Number of goroutines.
NCallers == 2

Inst == 1..MaxInst
Callers == 1..NCallers

\* Inputs of the operations.
OptionLists ==
  { <<>>,
    <<LTSVNoTime, LTSVNoLevel>>,
    <<LTSVNoTime, LTSVNoLevel, LTSVMessageLabel(<<>>)>>,
    \* "ts", "lv"
    <<LTSVTimeFormat(RFC822), LTSVTimeLabel(<<116, 115>>), LTSVLevelLabel(<<108, 118>>)>> }
\* user="alice", k="a\tb"
StringFields == { << <<117, 115, 101, 114>>, <<97, 108, 105, 99, 101>> >>, << <<107>>, <<97, TAB, 98>> >> }
\* q with a value of a double quote, a newline and the byte 1
EscapedFields == { << <<113>>, <<QUOTE, LF, 1>> >> }
\* a=1, a=2
IntFields == { << <<97>>, 1 >>, << <<97>>, 2 >> }
\* "k"
MarshalerKeys == { <<107>> }
\* what MarshalLog returns
MarshalErrors == {"nil", "can't marshal"}
\* the entries written: (message, level, time); the messages are "" and "a\nb"
Entries == { << <<>>, InfoLevel, 0 >>, << <<97, LF, 98>>, 42, 0 >> }
\* labels with a tab, a newline and a carriage return in them: "t\t", "\nl", "m\r"
LineOptions ==
  { <<>>,
    <<LTSVTimeLabel(<<116, TAB>>), LTSVLevelLabel(<<LF, 108>>), LTSVMessageLabel(<<109, CR>>)>> }
\* keys and values with these bytes: "\tk"="\r\n", "k\n"="a\tb"
LineFields == { << <<TAB, 107>>, <<CR, LF>> >>, << <<107, LF>>, <<97, TAB, 98>> >> }
\* messages with these bytes: "a\nb", "\r\t"
LineEntries == { << <<97, LF, 98>>, InfoLevel, 0 >>, << <<CR, TAB>>, 42, 0 >> }
\* what sink.Write returns: the error, and how many bytes short of the line the count is
SinkErrors == {"nil", "failed"}
SinkShort == {0, 1}

VARIABLES
  enc,      \* enc[i]: the fields of encoder object i
  live,     \* the objects ltsvPool.New has allocated
  pool,     \* the objects in ltsvPool
  own,      \* own[c]: the encoders caller c holds (got from NewLTSVEncoder or Clone)
  out,      \* out[i]: checkouts of object i not yet returned
  wr,       \* wr[c]: the WriteEntry call caller c is in, final = 0 when in none
  calls,    \* calls[i]: the AddMarshaler calls on i whose MarshalLog has not returned,
            \*   innermost last, each with the encoder as it was when the call began
  nwrites,  \* calls of sink.Write so far
  last,     \* the last operation: its arguments and results
  ops,      \* operations the behaviour has left
  input,    \* the argument of a function applied on its own: a string s and a skip count
  output    \* what the function returned, once it has

vars == <<enc, live, pool, own, out, wr, calls, nwrites, last, ops, input, output>>

NoWrite == [final |-> 0, src |-> 0, msg |-> <<>>, lvl |-> 0, t |-> 0]

NoLast ==
  [op |-> "none", caller |-> 0, inst |-> 0, res |-> 0, pre |-> ltsvPoolNew, got |-> ltsvPoolNew,
   fromPool |-> FALSE, entry |-> ltsvPoolNew,
   options |-> <<>>, key |-> <<>>, val |-> <<>>, msg |-> <<>>, lvl |-> 0, t |-> 0, sinkNil |-> FALSE,
   n |-> 0, err |-> "nil", line |-> <<>>, ret |-> "nil", seq |-> 0]

NoInput == [s |-> <<>>, skip |-> 0]
NoOutput == [done |-> FALSE, bytes |-> <<>>]

\* No encoder, and no call made.
InitEncoders ==
  /\ enc = [i \in Inst |-> ltsvPoolNew]
  /\ live = {}
  /\ pool = {}
  /\ own = [c \in Callers |-> {}]
  /\ out = [i \in Inst |-> 0]
  /\ wr = [c \in Callers |-> NoWrite]
  /\ calls = [i \in Inst |-> <<>>]
  /\ nwrites = 0
  /\ last = NoLast

Init ==
  /\ InitEncoders
  /\ ops = MaxOps
  /\ input = NoInput
  /\ output = NoOutput

(***************************************************************************)
(* sync.Pool: Get returns an object that was Put and not got since, or a   *)
(* new object from New; which one is the pool's choice.                    *)
(***************************************************************************)
Idle(c) == wr[c].final = 0 /\ ops > 0

PoolGetChoices ==
  pool \cup (IF live = Inst THEN {} ELSE {CHOOSE i \in Inst \ live : \A j \in Inst \ live : i <= j})

PoolGot(i) == IF i \in pool THEN enc[i] ELSE ltsvPoolNew

\* A variant of PoolAfterGet that leaves the object in the pool.
PoolAfterGet_Keep(i) == pool

PoolAfterGet(i) == pool \ {i}

PoolAfterPut(i) == pool \cup {i}

Step(rec) == /\ ops' = ops - 1
             /\ last' = [rec EXCEPT !.seq = ops]
             /\ UNCHANGED <<input, output>>

(***************************************************************************)
(* The operations.                                                         *)
(***************************************************************************)
CallNewLTSVEncoder(c, options) ==
  /\ Idle(c)
  /\ \E i \in PoolGetChoices :
       /\ enc' = [enc EXCEPT ![i] = NewLTSVEncoder(PoolGot(i), options)]
       /\ live' = live \cup {i}
       /\ pool' = PoolAfterGet(i)
       /\ out' = [out EXCEPT ![i] = @ + 1]
       /\ own' = [own EXCEPT ![c] = @ \cup {i}]
       /\ Step([NoLast EXCEPT !.op = "NewLTSVEncoder", !.caller = c, !.res = i,
                              !.got = PoolGot(i), !.fromPool = i \in pool, !.options = options])
  /\ UNCHANGED <<wr, calls, nwrites>>

CallFree(c, i) ==
  /\ Idle(c)
  /\ i \in own[c]
  /\ calls[i] = <<>>
  /\ pool' = PoolAfterPut(i)
  /\ out' = [out EXCEPT ![i] = @ - 1]
  /\ own' = [own EXCEPT ![c] = @ \ {i}]
  /\ Step([NoLast EXCEPT !.op = "Free", !.caller = c, !.inst = i, !.pre = enc[i]])
  /\ UNCHANGED <<enc, live, wr, calls, nwrites>>

CallAddString(c, i, key, val) ==
  /\ Idle(c)
  /\ i \in own[c]
  /\ enc' = [enc EXCEPT ![i] = AddString(enc[i], key, val)]
  /\ Step([NoLast EXCEPT !.op = "AddString", !.caller = c, !.inst = i, !.pre = enc[i], !.key = key,
                         !.val = val])
  /\ UNCHANGED <<live, pool, own, out, wr, calls, nwrites>>

CallAddInt64(c, i, key, val) ==
  /\ Idle(c)
  /\ i \in own[c]
  /\ enc' = [enc EXCEPT ![i] = AddInt64(enc[i], key, val)]
  /\ Step([NoLast EXCEPT !.op = "AddInt64", !.caller = c, !.inst = i, !.pre = enc[i], !.key = key])
  /\ UNCHANGED <<live, pool, own, out, wr, calls, nwrites>>

\* AddMarshaler calls obj.MarshalLog(enc): the callback runs, and what it
\* does to enc are further operations on enc.
CallAddMarshaler(c, i, key) ==
  /\ Idle(c)
  /\ i \in own[c]
  /\ Len(calls[i]) < MaxDepth
  /\ enc' = [enc EXCEPT ![i] = AddMarshalerEnter(enc[i], key)]
  /\ calls' = [calls EXCEPT ![i] = Append(@, enc[i])]
  /\ Step([NoLast EXCEPT !.op = "AddMarshaler", !.caller = c, !.inst = i, !.pre = enc[i], !.key = key])
  /\ UNCHANGED <<live, pool, own, out, wr, nwrites>>

\* obj.MarshalLog(enc) returns err, and AddMarshaler returns.
ReturnAddMarshaler(c, i, err) ==
  /\ Idle(c)
  /\ i \in own[c]
  /\ calls[i] # <<>>
  /\ enc' = [enc EXCEPT ![i] = AddMarshalerExit(enc[i], err)]
  /\ calls' = [calls EXCEPT ![i] = SubSeq(@, 1, Len(@) - 1)]
  /\ Step([NoLast EXCEPT !.op = "AddMarshalerReturn", !.caller = c, !.inst = i, !.pre = enc[i],
                         !.entry = calls[i][Len(calls[i])],
                         !.err = err, !.ret = AddMarshalerReturn(err)])
  /\ UNCHANGED <<live, pool, own, out, wr, nwrites>>

CallClone(c, i) ==
  /\ Idle(c)
  /\ i \in own[c]
  /\ \E j \in PoolGetChoices :
       /\ enc' = [enc EXCEPT ![j] = Clone(enc[i], PoolGot(j))]
       /\ live' = live \cup {j}
       /\ pool' = PoolAfterGet(j)
       /\ out' = [out EXCEPT ![j] = @ + 1]
       /\ own' = [own EXCEPT ![c] = @ \cup {j}]
       /\ Step([NoLast EXCEPT !.op = "Clone", !.caller = c, !.inst = i, !.res = j,
                              !.pre = enc[i], !.got = PoolGot(j), !.fromPool = j \in pool])
  /\ UNCHANGED <<wr, calls, nwrites>>

\* A variant of CallWriteEntryNilSink that gets and truncates the temporary
\* encoder before it looks at the sink.
CallWriteEntryNilSink_GetFirst(c, i, msg, lvl, t) ==
  /\ Idle(c)
  /\ i \in own[c]
  /\ \E j \in PoolGetChoices :
       /\ enc' = [enc EXCEPT ![j] = truncate(PoolGot(j))]
       /\ live' = live \cup {j}
       /\ pool' = PoolAfterGet(j)
       /\ out' = [out EXCEPT ![j] = @ + 1]
  /\ Step([NoLast EXCEPT !.op = "WriteEntry", !.caller = c, !.inst = i, !.pre = enc[i],
                         !.msg = msg, !.lvl = lvl, !.t = t, !.sinkNil = TRUE,
                         !.ret = "errNilSink"])
  /\ UNCHANGED <<own, wr, calls, nwrites>>

\* WriteEntry with sink == nil.
CallWriteEntryNilSink(c, i, msg, lvl, t) ==
  /\ Idle(c)
  /\ i \in own[c]
  /\ Step([NoLast EXCEPT !.op = "WriteEntry", !.caller = c, !.inst = i, !.pre = enc[i],
                         !.msg = msg, !.lvl = lvl, !.t = t, !.sinkNil = TRUE,
                         !.ret = "errNilSink"])
  /\ UNCHANGED <<enc, live, pool, own, out, wr, calls, nwrites>>

\* WriteEntry with a sink, up to and with the call sink.Write(final.bytes):
\* the temporary encoder is got from the pool, the line is composed in it
\* and handed to the sink.
CallWriteEntry(c, i, msg, lvl, t) ==
  /\ Idle(c)
  /\ i \in own[c]
  /\ \E j \in PoolGetChoices :
       /\ enc' = [enc EXCEPT ![j] = WriteEntryFinal(enc[i], PoolGot(j), msg, lvl, t)]
       /\ live' = live \cup {j}
       /\ pool' = PoolAfterGet(j)
       /\ out' = [out EXCEPT ![j] = @ + 1]
       /\ wr' = [wr EXCEPT ![c] = [final |-> j, src |-> i, msg |-> msg, lvl |-> lvl, t |-> t]]
       /\ nwrites' = nwrites + 1
       /\ Step([NoLast EXCEPT !.op = "sink.Write", !.caller = c, !.inst = i, !.res = j,
                              !.pre = enc[i], !.got = PoolGot(j), !.fromPool = j \in pool, !.msg = msg, !.lvl = lvl, !.t = t,
                              !.line = WriteEntryFinal(enc[i], PoolGot(j), msg, lvl, t).bytes])
  /\ UNCHANGED <<own, calls>>

\* A variant of ReturnWriteEntry that calls sink.Write again when the write failed.
ReturnWriteEntry_Retry(c, short, err) ==
  /\ wr[c].final # 0
  /\ ops > 0
  /\ LET j == wr[c].final
         i == wr[c].src
         n == Len(enc[j].bytes) - short
         ok == WriteEntryResult(n, err, Len(enc[j].bytes)) = "nil"
     IN  /\ n >= 0
         /\ pool' = PoolAfterPut(j)
         /\ out' = [out EXCEPT ![j] = @ - 1]
         /\ wr' = [wr EXCEPT ![c] = NoWrite]
         /\ nwrites' = IF ok THEN nwrites ELSE nwrites + 1
         /\ Step([NoLast EXCEPT !.op = "WriteEntry", !.caller = c, !.inst = i, !.res = j,
                                !.pre = enc[i], !.got = enc[j], !.msg = wr[c].msg, !.lvl = wr[c].lvl,
                                !.t = wr[c].t, !.n = n, !.err = err, !.line = enc[j].bytes,
                                !.ret = WriteEntryResult(n, err, Len(enc[j].bytes))])
  /\ UNCHANGED <<enc, live, own, calls>>

\* A variant of ReturnWriteEntry that frees final only when the write succeeded.
ReturnWriteEntry_FreeOnSuccess(c, short, err) ==
  /\ wr[c].final # 0
  /\ ops > 0
  /\ LET j == wr[c].final
         i == wr[c].src
         n == Len(enc[j].bytes) - short
         ok == WriteEntryResult(n, err, Len(enc[j].bytes)) = "nil"
     IN  /\ n >= 0
         /\ pool' = IF ok THEN PoolAfterPut(j) ELSE pool
         /\ out' = IF ok THEN [out EXCEPT ![j] = @ - 1] ELSE out
         /\ wr' = [wr EXCEPT ![c] = NoWrite]
         /\ Step([NoLast EXCEPT !.op = "WriteEntry", !.caller = c, !.inst = i, !.res = j,
                                !.pre = enc[i], !.got = enc[j], !.msg = wr[c].msg, !.lvl = wr[c].lvl,
                                !.t = wr[c].t, !.n = n, !.err = err, !.line = enc[j].bytes,
                                !.ret = WriteEntryResult(n, err, Len(enc[j].bytes))])
  /\ UNCHANGED <<enc, live, own, calls, nwrites>>

\* sink.Write returns (n, err) with n = len(final.bytes) - short; final is
\* freed and WriteEntry returns.
ReturnWriteEntry(c, short, err) ==
  /\ wr[c].final # 0
  /\ ops > 0
  /\ LET j == wr[c].final
         i == wr[c].src
         n == Len(enc[j].bytes) - short
     IN  /\ n >= 0
         /\ pool' = PoolAfterPut(j)
         /\ out' = [out EXCEPT ![j] = @ - 1]
         /\ wr' = [wr EXCEPT ![c] = NoWrite]
         /\ Step([NoLast EXCEPT !.op = "WriteEntry", !.caller = c, !.inst = i, !.res = j,
                                !.pre = enc[i], !.got = enc[j], !.msg = wr[c].msg, !.lvl = wr[c].lvl,
                                !.t = wr[c].t, !.n = n, !.err = err, !.line = enc[j].bytes,
                                !.ret = WriteEntryResult(n, err, Len(enc[j].bytes))])
  /\ UNCHANGED <<enc, live, own, calls, nwrites>>

\* One goroutine using the encoders.
Next ==
  \E c \in {1} :
    \/ \E options \in OptionLists : CallNewLTSVEncoder(c, options)
    \/ \E i \in Inst : CallFree(c, i)
    \/ \E i \in Inst, f \in StringFields : CallAddString(c, i, f[1], f[2])
    \/ \E i \in Inst, key \in MarshalerKeys : CallAddMarshaler(c, i, key)
    \/ \E i \in Inst, err \in MarshalErrors : ReturnAddMarshaler(c, i, err)
    \/ \E i \in Inst : CallClone(c, i)
    \/ \E i \in Inst, e \in Entries : CallWriteEntryNilSink(c, i, e[1], e[2], e[3])
    \/ \E i \in Inst, e \in Entries : CallWriteEntry(c, i, e[1], e[2], e[3])
    \/ \E short \in SinkShort, err \in SinkErrors : ReturnWriteEntry(c, short, err)

Spec == Init /\ [][Next]_vars

\* Several goroutines checking encoders out of the pool and returning them.
NextPool ==
  \E c \in Callers :
    \/ CallNewLTSVEncoder(c, <<>>)
    \/ \E i \in Inst : CallFree(c, i)
    \/ \E i \in Inst : CallClone(c, i)
    \/ \E i \in Inst, e \in Entries : CallWriteEntry(c, i, e[1], e[2], e[3])
    \/ \E short \in SinkShort, err \in SinkErrors : ReturnWriteEntry(c, short, err)

SpecPool == Init /\ [][NextPool]_vars

\* One goroutine adding fields to the encoders it got from NewLTSVEncoder.
NextFields ==
  \E c \in {1} :
    \/ CallNewLTSVEncoder(c, <<>>)
    \/ \E i \in Inst, f \in StringFields \cup EscapedFields : CallAddString(c, i, f[1], f[2])
    \/ \E i \in Inst, f \in IntFields : CallAddInt64(c, i, f[1], f[2])
    \/ \E i \in Inst, key \in MarshalerKeys : CallAddMarshaler(c, i, key)
    \/ \E i \in Inst, err \in MarshalErrors : ReturnAddMarshaler(c, i, err)

SpecFields == Init /\ [][NextFields]_vars

\* One goroutine that frees encoders and gets them again from the pool.
NextReuse ==
  \E c \in {1} :
    \/ CallNewLTSVEncoder(c, <<>>)
    \/ \E i \in Inst : CallFree(c, i)
    \/ \E i \in Inst, f \in IntFields : CallAddInt64(c, i, f[1], f[2])
    \/ \E i \in Inst, f \in StringFields : CallAddString(c, i, f[1], f[2])
    \/ \E i \in Inst, key \in MarshalerKeys : CallAddMarshaler(c, i, key)
    \/ \E i \in Inst, err \in MarshalErrors : ReturnAddMarshaler(c, i, err)
    \/ \E i \in Inst : CallClone(c, i)

\* Such a behaviour has MaxCalls operations.
InitReuse ==
  /\ InitEncoders
  /\ ops = MaxCalls
  /\ input = NoInput
  /\ output = NoOutput

SpecReuse == InitReuse /\ [][NextReuse]_vars

\* The levels written: the six named ones, the numbers next to them, and 42.
Levels == (DebugLevel - 1)..(FatalLevel + 1) \cup {42}
\* the entries written at these levels: the message is "m"
LevelEntries == { << <<109>>, lvl, 0 >> : lvl \in Levels }

\* One goroutine writing entries at every level.
NextLevels ==
  \E c \in {1} :
    \/ \E options \in OptionLists : CallNewLTSVEncoder(c, options)
    \/ \E i \in Inst, e \in LevelEntries : CallWriteEntry(c, i, e[1], e[2], e[3])
    \/ \E short \in SinkShort, err \in SinkErrors : ReturnWriteEntry(c, short, err)

SpecLevels == Init /\ [][NextLevels]_vars

\* One goroutine writing entries to a nil sink and to sinks that fail or
\* take less than the line.
NextWrite ==
  \E c \in {1} :
    \/ \E options \in OptionLists : CallNewLTSVEncoder(c, options)
    \/ \E i \in Inst, f \in StringFields : CallAddString(c, i, f[1], f[2])
    \/ \E i \in Inst, e \in Entries : CallWriteEntryNilSink(c, i, e[1], e[2], e[3])
    \/ \E i \in Inst, e \in Entries : CallWriteEntry(c, i, e[1], e[2], e[3])
    \/ \E short \in SinkShort, err \in SinkErrors : ReturnWriteEntry(c, short, err)

SpecWrite == Init /\ [][NextWrite]_vars

\* One goroutine writing entries whose labels, keys, values and messages
\* have tabs, newlines and carriage returns in them, to a sink that takes
\* every line.
NextLine ==
  \E c \in {1} :
    \/ \E options \in LineOptions : CallNewLTSVEncoder(c, options)
    \/ \E i \in Inst : CallFree(c, i)
    \/ \E i \in Inst, f \in LineFields : CallAddString(c, i, f[1], f[2])
    \/ \E i \in Inst, key \in MarshalerKeys : CallAddMarshaler(c, i, key)
    \/ \E i \in Inst, err \in MarshalErrors : ReturnAddMarshaler(c, i, err)
    \/ \E i \in Inst : CallClone(c, i)
    \/ \E i \in Inst, e \in LineEntries : CallWriteEntry(c, i, e[1], e[2], e[3])
    \/ \E short \in {0}, err \in {"nil"} : ReturnWriteEntry(c, short, err)

SpecLine == Init /\ [][NextLine]_vars

(***************************************************************************)
(* Functions applied on their own: the argument is chosen at the start,    *)
(* the one step is the call.                                               *)
(***************************************************************************)
\* The strings over the bytes A of length n at most.
RECURSIVE StringsUpTo(_, _)
StringsUpTo(A, n) ==
  IF n = 0 THEN {<<>>}
  ELSE LET S == StringsUpTo(A, n - 1)
       IN  S \cup {Append(s, b) : s \in {x \in S : Len(x) = n - 1}, b \in A}

\* tab, LF, CR, backslash, 't' and 'a'
SimpleAlphabet == {TAB, LF, CR, BACKSLASH, 116, 97}

InitSafeAddString ==
  /\ InitEncoders
  /\ ops = 0
  /\ input \in [s : StringsUpTo(SimpleAlphabet, MaxLen), skip : {0}]
  /\ output = NoOutput

\* enc.safeAddString(s) on an encoder ltsvPool.New made.
ApplySafeAddString ==
  /\ ~output.done
  /\ output' = [done |-> TRUE, bytes |-> safeAddString(ltsvPoolNew, input.s).bytes]
  /\ UNCHANGED <<enc, live, pool, own, out, wr, calls, nwrites, last, ops, input>>

SpecSafeAddString == InitSafeAddString /\ [][ApplySafeAddString]_vars

\* 'a', the bytes with an escape of their own, a control byte, the lead
\* bytes of runes of 2, 3 and 4 bytes, the lead byte of the surrogates, a
\* continuation byte, and a byte no rune has.
JSONAlphabet == {97, QUOTE, BACKSLASH, TAB, LF, CR, 1, 195, 226, 240, 237, 169, 255}
\* a rune of 4 bytes, alone, between two bytes and cut short
JSONRunes4 ==
  { <<240, 169, 169, 169>>, <<QUOTE, 240, 169, 169, 169, 255>>, <<240, 169, 169, BACKSLASH>> }

InitSafeAddJSONString ==
  /\ InitEncoders
  /\ ops = 0
  /\ input \in [s : StringsUpTo(JSONAlphabet, MaxLen) \cup JSONRunes4, skip : {0}]
  /\ output = NoOutput

\* enc.safeAddJSONString(s) on an encoder ltsvPool.New made.
ApplySafeAddJSONString ==
  /\ ~output.done
  /\ output' = [done |-> TRUE, bytes |-> safeAddJSONString(ltsvPoolNew, input.s).bytes]
  /\ UNCHANGED <<enc, live, pool, own, out, wr, calls, nwrites, last, ops, input>>

SpecSafeAddJSONString == InitSafeAddJSONString /\ [][ApplySafeAddJSONString]_vars

\* 'a', newline and tab
StackAlphabet == {97, LF, TAB}

\* Frame n of a stack dump: the line "f<n>" and the line tab "l<n>".
Frame(n) == <<102, 48 + n, LF, TAB, 108, 48 + n, LF>>

\* A stack dump: a header line of h bytes and the frames 1 to n.
Dump(h, n) == [m \in 1..h |-> 104] \o <<LF>> \o Flatten([m \in 1..n |-> Frame(m)])

Dumps == {Dump(h, n) : h \in 0..MaxHeader, n \in 0..MaxFrames}

\* The dumps with the last bytes cut off.
CutDumps == {SubSeq(d, 1, Len(d) - n) : d \in Dumps, n \in 1..4}

InitFormatStacktrace ==
  /\ InitEncoders
  /\ ops = 0
  /\ input \in [s : StringsUpTo(StackAlphabet, MaxLen) \cup Dumps \cup CutDumps, skip : 0..MaxSkip]
  /\ output = NoOutput

\* formatStacktraceInOneLine(skip, s)
ApplyFormatStacktrace ==
  /\ ~output.done
  /\ output' = [done |-> TRUE, bytes |-> formatStacktraceInOneLine(input.skip, input.s)]
  /\ UNCHANGED <<enc, live, pool, own, out, wr, calls, nwrites, last, ops, input>>

SpecFormatStacktrace == InitFormatStacktrace /\ [][ApplyFormatStacktrace]_vars

(***************************************************************************)
(* The line grammar of the entry writer, written from its description:     *)
(* fields label:value separated by tabs at top level, "label":value        *)
(* separated by commas inside an object.                                   *)
(***************************************************************************)
\* s with tab, LF and CR replaced by backslash-t, backslash-n, backslash-r.
RECURSIVE EscapeTLC(_)
EscapeTLC(s) ==
  IF s = <<>> THEN <<>>
  ELSE (CASE Head(s) = TAB -> <<BACKSLASH, 116>>
          [] Head(s) = LF -> <<BACKSLASH, 110>>
          [] Head(s) = CR -> <<BACKSLASH, 114>>
          [] OTHER -> <<Head(s)>>) \o EscapeTLC(Tail(s))

\* A field in grammar g ("ltsv" or "json"); first: no field precedes it.
FieldIn(g, first, label, value) ==
  IF g = "ltsv"
  THEN (IF first THEN <<>> ELSE <<TAB>>) \o label \o <<COLON>> \o value
  ELSE (IF first THEN <<>> ELSE <<COMMA>>) \o <<QUOTE>> \o label \o <<QUOTE, COLON>> \o value

TimeFieldIn(g, e, t) ==
  IF e.timeFmt = "" THEN <<>> ELSE FieldIn(g, TRUE, e.timeLabel, FormatTime(t, e.timeFmt))

\* The time, level and message fields of encoder e, in this order.
EntryFieldsIn(g, e, msg, lvl, t) ==
  TimeFieldIn(g, e, t)
    \o FieldIn(g, TimeFieldIn(g, e, t) = <<>>, e.levelLabel, LevelBytes(lvl))
    \o FieldIn(g, FALSE, e.messageLabel, EscapeTLC(msg))

\* What follows the message field: a tab and the collected fields if there are any, and the newline.
EntryTail(e) == (IF e.bytes # <<>> THEN <<TAB>> \o e.bytes ELSE <<>>) \o <<LF>>

Grammars == {"ltsv", "json"}

\* C1: the line handed to the sink is the time field, the level field and
\* the message field in this order, then a tab and the source buffer's
\* bytes verbatim if and only if that buffer is non-empty, then one newline.
C1_LineOrder ==
  last.op = "sink.Write" =>
    \E g \in Grammars :
      last.line = EntryFieldsIn(g, last.pre, last.msg, last.lvl, last.t) \o EntryTail(last.pre)

C1_Witness ==
  /\ last.op = "sink.Write"
  /\ last.pre.bytes # <<>>
  /\ last.pre.timeFmt # ""
  /\ last.msg # <<>>

\* The fields of e with every field whose label is empty left out, value and separator too.
RECURSIVE JoinFields(_, _)
JoinFields(g, fs) ==
  IF fs = <<>> THEN <<>>
  ELSE IF Head(fs)[1] = <<>> THEN JoinFields(g, Tail(fs))
  ELSE LET rest == JoinFields(g, Tail(fs))
       IN  FieldIn(g, TRUE, Head(fs)[1], Head(fs)[2])
             \o (IF rest = <<>> THEN <<>> ELSE (IF g = "ltsv" THEN <<TAB>> ELSE <<COMMA>>) \o rest)

OmittingLine(g, e, msg, lvl, t) ==
  LET head == JoinFields(g, << <<IF e.timeFmt = "" THEN <<>> ELSE e.timeLabel, FormatTime(t, e.timeFmt)>>,
                               <<e.levelLabel, LevelBytes(lvl)>>,
                               <<e.messageLabel, EscapeTLC(msg)>> >>)
  IN  head \o (IF e.bytes # <<>> /\ head # <<>> THEN <<TAB>> ELSE <<>>) \o e.bytes \o <<LF>>

\* C2: in the line WriteEntry produces, a time, level or message label that
\* is the empty string is omitted together with its value and its separator.
C2_EmptyLabelOmitted ==
  last.op = "sink.Write" =>
    \E g \in Grammars : last.line = OmittingLine(g, last.pre, last.msg, last.lvl, last.t)

\* "user:alice"
UserAlice == <<117, 115, 101, 114, 58, 97, 108, 105, 99, 101>>

\* C3: with the time and the level suppressed and the one string field
\* user="alice" added, the bytes written are 'user:alice' and a newline.
C3_UserAliceOnly ==
  (/\ last.op = "sink.Write"
   /\ last.pre.timeFmt = ""
   /\ last.pre.levelLabel = <<>>
   /\ last.pre.bytes = UserAlice)
  => last.line = UserAlice \o <<LF>>

\* The configuration of an encoder built with no options on a new pool object.
DefaultConfig(e) ==
  /\ e.timeLabel = LabelTime
  /\ e.levelLabel = LabelLevel
  /\ e.messageLabel = LabelMsg
  /\ e.timeFmt = RFC3339

DefaultInfoEmpty ==
  /\ last.op = "sink.Write"
  /\ DefaultConfig(last.pre)
  /\ last.pre.bytes = <<>>
  /\ last.lvl = InfoLevel
  /\ last.msg = <<>>

\* "level:I", "msg:"
LevelI == <<108, 101, 118, 101, 108, 58, 73>>
MsgEmpty == <<109, 115, 103, 58>>

\* C4 as stated: with the default configuration, level Info, an empty
\* message and no fields, the bytes written are 'level:I', tab, 'msg:', newline.
C4_NoTimeByDefault == DefaultInfoEmpty => last.line = LevelI \o <<TAB>> \o MsgEmpty \o <<LF>>

\* C4, amended: with the default configuration, level Info, an empty message
\* and no fields, the bytes written are 'time:', the timestamp in RFC3339,
\* tab, 'level:I', tab, 'msg:', newline when the line is composed at nesting
\* depth 0, and the same three fields with quoted labels and commas
\* ("time":<timestamp>,"level":I,"msg":) when the pooled object it is
\* composed in was left at a nesting depth above 0.
C4_TimeByDefault ==
  DefaultInfoEmpty =>
    last.line =
      IF last.got.nestedLevel = 0
      THEN LabelTime \o <<COLON>> \o FormatTime(last.t, RFC3339) \o <<TAB>> \o LevelI \o <<TAB>> \o MsgEmpty \o <<LF>>
      ELSE <<QUOTE>> \o LabelTime \o <<QUOTE, COLON>> \o FormatTime(last.t, RFC3339)
             \o <<COMMA, QUOTE>> \o LabelLevel \o <<QUOTE, COLON, 73, COMMA, QUOTE>>
             \o LabelMsg \o <<QUOTE, COLON, LF>>

C4_Witness == DefaultInfoEmpty /\ last.got.nestedLevel = 0

\* The step is an operation, and last' describes it.
Performed == last'.seq # last.seq

\* C5: WriteEntry with a nil sink returns errNilSink at once: sink.Write is
\* not called, no encoder is got from or put into the pool, and the source
\* encoder, its bytes and its nesting depth included, is as before the call.
C5_NilSinkNoEffect ==
  [][(Performed /\ last'.op = "WriteEntry" /\ last'.sinkNil) =>
       /\ last'.ret = "errNilSink"
       /\ nwrites' = nwrites
       /\ pool' = pool /\ live' = live /\ out' = out /\ wr' = wr /\ own' = own
       /\ enc' = enc
       /\ enc'[last'.inst] = last'.pre]_vars

C5_Witness ==
  /\ last.op = "WriteEntry"
  /\ last.sinkNil
  /\ last.ret = "errNilSink"
  /\ last.pre.bytes # <<>>
  /\ last.pre.nestedLevel > 0
  /\ nwrites = 0

\* A WriteEntry call that got as far as sink.Write has returned.
WriteReturned == last.op = "WriteEntry" /\ ~last.sinkNil

\* C6: when sink.Write reports no error and a count that is not the length
\* of the line, WriteEntry returns the error 'incomplete write'; when
\* sink.Write reports an error, WriteEntry returns that error, whatever the
\* count; WriteEntry returns nil only when sink.Write reported no error and
\* a count equal to the length of the line.
C6_WriteErrors ==
  WriteReturned =>
    /\ (last.err = "nil" /\ last.n # Len(last.line)) => last.ret = "incomplete write"
    /\ last.err # "nil" => last.ret = last.err
    /\ last.ret = "nil" <=> (last.err = "nil" /\ last.n = Len(last.line))

C6_Witness ==
  /\ WriteReturned
  /\ last.err = "nil"
  /\ last.n < Len(last.line)
  /\ last.ret = "incomplete write"

\* The '{' bytes less the '}' bytes of s.
OpenBraces(s) == Count(s, LBRACE) - Count(s, RBRACE)

\* "k:{}"
KEmptyObject == <<107, COLON, LBRACE, RBRACE>>

\* C7: when an AddMarshaler call returns, at any nesting depth and whether
\* MarshalLog returned an error or not, the call has appended as many '}' as
\* '{' to the buffer it began with, and it returns the error MarshalLog
\* returned.
C7_BracesBalanced ==
  last.op = "AddMarshalerReturn" =>
    LET b == enc[last.inst].bytes
        b0 == last.entry.bytes
    IN  /\ Len(b) >= Len(b0)
        /\ SubSeq(b, 1, Len(b0)) = b0
        /\ Count(b, LBRACE) > Count(b0, LBRACE)
        /\ OpenBraces(b) = OpenBraces(b0)
        /\ enc[last.inst].nestedLevel = last.entry.nestedLevel
        /\ last.ret = last.err

C7_Witness ==
  /\ last.op = "AddMarshalerReturn"
  /\ last.err = "can't marshal"
  /\ last.ret = "can't marshal"
  /\ enc[last.inst].bytes = KEmptyObject

AddOps == {"AddString", "AddInt64", "AddMarshaler", "AddMarshalerReturn"}

\* C8: Clone returns an encoder other than the source whose bytes, labels,
\* time layout and replacer are the source's at the time of the call, and
\* leaves the source as it was; an add operation on an encoder changes no
\* other encoder, so that adding to the source leaves the clone unchanged
\* and adding to the clone leaves the source unchanged.
C8_CloneIndependent ==
  [][/\ (Performed /\ last'.op = "Clone") =>
          /\ last'.res # last'.inst
          /\ enc'[last'.res].bytes = enc[last'.inst].bytes
          /\ enc'[last'.res].timeLabel = enc[last'.inst].timeLabel
          /\ enc'[last'.res].levelLabel = enc[last'.inst].levelLabel
          /\ enc'[last'.res].messageLabel = enc[last'.inst].messageLabel
          /\ enc'[last'.res].timeFmt = enc[last'.inst].timeFmt
          /\ enc'[last'.res].replacer = enc[last'.inst].replacer
          /\ enc'[last'.inst] = enc[last'.inst]
     /\ (Performed /\ last'.op \in AddOps) =>
          \A j \in Inst \ {last'.inst} : enc'[j] = enc[j]]_vars

\* A field was added to an encoder of two fields while the caller holds
\* another encoder with the same two fields, as after Clone.
C8_Witness ==
  /\ last.op = "AddString"
  /\ Count(last.pre.bytes, TAB) > 0
  /\ enc[last.inst].bytes # last.pre.bytes
  /\ \E j \in own[last.caller] \ {last.inst} : enc[j].bytes = last.pre.bytes

\* C9: the encoder NewLTSVEncoder returns has no bytes, nesting depth 0 and
\* the default labels and layout changed by the options of this call only,
\* whatever the object got from the pool was used for before.
C9_NewIsZeroed ==
  last.op = "NewLTSVEncoder" => enc[last.res] = NewLTSVEncoder(ltsvPoolNew, last.options)

\* How many times object i is held: as an encoder a caller got from
\* NewLTSVEncoder or Clone, or as the temporary encoder of a WriteEntry call.
HoldCount(i) ==
  Cardinality({c \in Callers : i \in own[c]}) + Cardinality({c \in Callers : wr[c].final = i})

\* C10: under any interleaving of NewLTSVEncoder, Clone, WriteEntry and Free
\* by several goroutines, an object is held at most once at a time, and an
\* object in the pool is held by nobody.
C10_OneHolder ==
  \A i \in Inst :
    /\ HoldCount(i) <= 1
    /\ out[i] = HoldCount(i)
    /\ i \in pool => HoldCount(i) = 0

\* An object that was returned is handed out again while another goroutine
\* holds an encoder.
C10_Witness ==
  /\ last.op \in {"NewLTSVEncoder", "Clone", "sink.Write"}
  /\ last.fromPool
  /\ HoldCount(last.res) = 1
  /\ \E c \in Callers \ {last.caller} : own[c] # {} \/ wr[c].final # 0

\* The level codes: D, I, W, E, P, F for the named levels, the decimal
\* number for the other levels of the model.
LevelCode(lvl) ==
  CASE lvl = DebugLevel -> <<68>>
    [] lvl = InfoLevel -> <<73>>
    [] lvl = WarnLevel -> <<87>>
    [] lvl = ErrorLevel -> <<69>>
    [] lvl = PanicLevel -> <<80>>
    [] lvl = FatalLevel -> <<70>>
    [] lvl = 42 -> <<52, 50>>
    [] lvl = 5 -> <<53>>
    [] lvl = 0 - 2 -> <<45, 50>>

\* C11: the value of the level field WriteEntry writes is the letter D, I,
\* W, E, P or F for Debug, Info, Warn, Error, Panic and Fatal, and the
\* decimal number of the level for every other level (42 gives '42').
C11_LevelCodes ==
  last.op = "sink.Write" =>
    \E g \in Grammars :
      last.line = TimeFieldIn(g, last.pre, last.t)
                    \o FieldIn(g, TimeFieldIn(g, last.pre, last.t) = <<>>, last.pre.levelLabel, LevelCode(last.lvl))
                    \o FieldIn(g, FALSE, last.pre.messageLabel, EscapeTLC(last.msg))
                    \o EntryTail(last.pre)

C11_Witness ==
  /\ last.op = "sink.Write"
  /\ last.lvl = 42
  /\ last.pre.levelLabel = LabelLevel
  /\ \E n \in 1..(Len(last.line) - 1) : SubSeq(last.line, n, n + 1) = <<52, 50>>

\* s begins with p.
StartsWith(s, p) == Len(s) >= Len(p) /\ SubSeq(s, 1, Len(p)) = p

\* C12: when the time layout is the empty string the line WriteEntry
\* writes has no time label, value or separator and begins with the level
\* field; when the layout is not empty the line begins with the time label,
\* a colon and the time formatted with the layout.
C12_TimeFieldFirst ==
  last.op = "sink.Write" =>
    IF last.pre.timeFmt = ""
    THEN \E g \in Grammars :
           last.line = FieldIn(g, TRUE, last.pre.levelLabel, LevelBytes(last.lvl))
                         \o FieldIn(g, FALSE, last.pre.messageLabel, EscapeTLC(last.msg))
                         \o EntryTail(last.pre)
    ELSE StartsWith(last.line, last.pre.timeLabel \o <<COLON>> \o FormatTime(last.t, last.pre.timeFmt))

\* C14: simple escaping replaces the bytes tab, LF and CR by backslash-t,
\* backslash-n and backslash-r and copies every other byte, so that its
\* result has no tab, LF or CR and escaping the result gives the result.
C14_SimpleEscape ==
  output.done =>
    /\ output.bytes = EscapeTLC(input.s)
    /\ \A n \in 1..Len(output.bytes) : output.bytes[n] \notin {TAB, LF, CR}
    /\ safeAddString(ltsvPoolNew, output.bytes).bytes = output.bytes

C14_Witness ==
  /\ output.done
  /\ {TAB, LF, CR} \subseteq {input.s[n] : n \in 1..Len(input.s)}
  /\ Len(output.bytes) = 2 * Len(input.s)

(***************************************************************************)
(* JSON strings (RFC 8259), written from the grammar: the characters       *)
(* between the quotes are bytes from 0x20 on other than the quote and the  *)
(* backslash, or a backslash with one of the letters "\/bfnrt, or            *)
(* backslash-u with four hexadecimal digits.                               *)
(***************************************************************************)
IsHex(b) == (48 <= b /\ b <= 57) \/ (97 <= b /\ b <= 102) \/ (65 <= b /\ b <= 70)

HexVal(b) == IF b <= 57 THEN b - 48 ELSE IF b >= 97 THEN b - 87 ELSE b - 55

\* UTF-8 of the code point cp of the basic plane.
UTF8(cp) ==
  IF cp < 128 THEN <<cp>>
  ELSE IF cp < 2048 THEN <<192 + (cp \div 64), 128 + (cp % 64)>>
  ELSE <<224 + (cp \div 4096), 128 + ((cp \div 64) % 64), 128 + (cp % 64)>>

\* The letters after a backslash and the bytes they stand for.
ShortEscapes == << <<QUOTE, QUOTE>>, <<BACKSLASH, BACKSLASH>>, <<47, 47>>, <<98, 8>>, <<102, 12>>,
                   <<110, LF>>, <<114, CR>>, <<116, TAB>> >>

IsShortEscape(b) == \E n \in 1..Len(ShortEscapes) : ShortEscapes[n][1] = b

ShortEscapeOf(b) == ShortEscapes[CHOOSE n \in 1..Len(ShortEscapes) : ShortEscapes[n][1] = b][2]

IsUEscape(x, i) == i + 5 <= Len(x) /\ x[i + 1] = 117 /\ \A k \in 2..5 : IsHex(x[i + k])

\* x from i on is the inside of a JSON string.
RECURSIVE ValidJSONFrom(_, _)
ValidJSONFrom(x, i) ==
  IF i > Len(x) THEN TRUE
  ELSE IF x[i] = BACKSLASH
  THEN IF i + 1 <= Len(x) /\ IsShortEscape(x[i + 1]) THEN ValidJSONFrom(x, i + 2)
       ELSE IF IsUEscape(x, i) THEN ValidJSONFrom(x, i + 6)
       ELSE FALSE
  ELSE IF x[i] = QUOTE \/ x[i] < 32 THEN FALSE
  ELSE ValidJSONFrom(x, i + 1)

\* The string the inside x of a JSON string stands for, from i on.
RECURSIVE ParseJSONFrom(_, _)
ParseJSONFrom(x, i) ==
  IF i > Len(x) THEN <<>>
  ELSE IF x[i] = BACKSLASH
  THEN IF IsShortEscape(x[i + 1]) THEN <<ShortEscapeOf(x[i + 1])>> \o ParseJSONFrom(x, i + 2)
       ELSE UTF8(4096 * HexVal(x[i + 2]) + 256 * HexVal(x[i + 3]) + 16 * HexVal(x[i + 4]) + HexVal(x[i + 5]))
              \o ParseJSONFrom(x, i + 6)
  ELSE <<x[i]>> \o ParseJSONFrom(x, i + 1)

\* s from i on with every byte that fails UTF-8 decoding replaced by U+FFFD.
RECURSIVE ReplaceInvalidFrom(_, _)
ReplaceInvalidFrom(s, i) ==
  IF i > Len(s) THEN <<>>
  ELSE IF s[i] < RuneSelf THEN <<s[i]>> \o ReplaceInvalidFrom(s, i + 1)
  ELSE IF RuneSize(s, i) = 0 THEN UTF8(65533) \o ReplaceInvalidFrom(s, i + 1)
  ELSE SubSeq(s, i, i + RuneSize(s, i) - 1) \o ReplaceInvalidFrom(s, i + RuneSize(s, i))

\* C15: the JSON escaping of a byte string, put between double quotes, is a
\* JSON string: it has no byte below 0x20, no double quote or backslash
\* outside an escape, and no byte that fails UTF-8 decoding; parsing it
\* gives the byte string with each byte that fails UTF-8 decoding, and only
\* that byte, replaced by U+FFFD.
C15_JSONRoundTrip ==
  output.done =>
    /\ ValidJSONFrom(output.bytes, 1)
    /\ ReplaceInvalidFrom(output.bytes, 1) = output.bytes
    /\ ParseJSONFrom(output.bytes, 1) = ReplaceInvalidFrom(input.s, 1)

\* A rune of 4 bytes between a double quote and a byte no rune has.
C15_Witness ==
  /\ output.done
  /\ input.s = <<QUOTE, 240, 169, 169, 169, 255>>
  /\ output.bytes = <<BACKSLASH, QUOTE, 240, 169, 169, 169, BACKSLASH, 117, 102, 102, 102, 100>>

\* C13: AddString appends, after the key, the value as it is with tab, LF
\* and CR replaced by backslash-t, backslash-n and backslash-r when the
\* nesting depth is 0, and the value as a JSON string between double quotes
\* when the nesting depth is above 0.
C13_StringValueByDepth ==
  last.op = "AddString" =>
    LET k == addKey(last.pre, last.key).bytes
        b == enc[last.inst].bytes
        v == SubSeq(b, Len(k) + 1, Len(b))
    IN  /\ StartsWith(b, k)
        /\ IF last.pre.nestedLevel = 0
           THEN v = EscapeTLC(last.val)
           ELSE /\ Len(v) >= 2
                /\ v[1] = QUOTE
                /\ v[Len(v)] = QUOTE
                /\ ValidJSONFrom(SubSeq(v, 2, Len(v) - 1), 1)
                /\ ParseJSONFrom(SubSeq(v, 2, Len(v) - 1), 1) = last.val

C13_Witness ==
  /\ last.op = "AddString"
  /\ last.pre.nestedLevel > 0
  /\ QUOTE \in {last.val[n] : n \in 1..Len(last.val)}
  /\ \E j \in Inst : enc[j].nestedLevel = 0 /\ enc[j].bytes = <<113, COLON, QUOTE>> \o EscapeTLC(<<LF, 1>>)

(***************************************************************************)
(* The flattener, written from its description, on the text as a value:    *)
(* 1 + 2*skip lines are dropped, then every pair of a description line and *)
(* a location line (a tab and the location) gives [description location],  *)
(* the pairs joined by commas; where a newline is missing the text not     *)
(* consumed so far and '...' end the result.  ok is FALSE when a location  *)
(* line does not begin with a tab, which the description does not cover.   *)
(***************************************************************************)
HasLine(s) == \E n \in 1..Len(s) : s[n] = LF

LineEnd(s) == CHOOSE n \in 1..Len(s) : s[n] = LF /\ \A m \in 1..(n - 1) : s[m] # LF

\* The first line of s without its newline, and what follows the line.
FirstLine(s) == SubSeq(s, 1, LineEnd(s) - 1)
AfterLine(s) == SubSeq(s, LineEnd(s) + 1, Len(s))

Flat(bytes, cut, ok) == [bytes |-> bytes, cut |-> cut, ok |-> ok]

RECURSIVE FlatFrames(_, _)
FlatFrames(rest, done) ==
  IF rest = <<>> THEN Flat(done, FALSE, TRUE)
  ELSE IF ~HasLine(rest) THEN Flat(done \o <<LBRACKET>> \o rest \o <<DOT, DOT, DOT>>, TRUE, TRUE)
  ELSE LET d == done \o <<LBRACKET>> \o FirstLine(rest) \o <<SPACE>>
           r == AfterLine(rest)
       IN  IF r = <<>> THEN Flat(d \o <<DOT, DOT, DOT>>, TRUE, TRUE)
           ELSE IF r[1] # TAB THEN Flat(d, FALSE, FALSE)
           ELSE IF ~HasLine(Tail(r)) THEN Flat(d \o Tail(r) \o <<DOT, DOT, DOT>>, TRUE, TRUE)
           ELSE LET f == d \o FirstLine(Tail(r)) \o <<RBRACKET>>
                    t == AfterLine(r)
                IN  FlatFrames(t, IF t = <<>> THEN f ELSE f \o <<COMMA>>)

RECURSIVE FlatSkip(_, _)
FlatSkip(rest, n) ==
  IF n = 0 THEN FlatFrames(rest, <<>>)
  ELSE IF ~HasLine(rest) THEN Flat(rest \o <<DOT, DOT, DOT>>, TRUE, TRUE)
  ELSE FlatSkip(AfterLine(rest), n - 1)

Flattened == FlatSkip(input.s, 1 + 2 * input.skip)

\* C16: for a stack dump of a header line and pairs of a description line
\* and a location line, each ended by a newline, and any skip count, the
\* flattener drops the first 1 + 2*skip lines and returns [description
\* location] for each pair left, in order, joined by single commas, with
\* nothing after the last; whatever the number of frames and the length of
\* the header.
C16_FlattenFrames ==
  (output.done /\ Flattened.ok /\ ~Flattened.cut) => output.bytes = Flattened.bytes

\* C17: when a newline the flattener looks for is missing, in the lines it
\* skips, in a description line or in a location line, it returns what it
\* has produced so far, then the text it has not consumed, then '...', and
\* no byte of the text twice.
C17_CutOutput ==
  (output.done /\ Flattened.ok /\ Flattened.cut) => output.bytes = Flattened.bytes

\* C18: for every text and skip count the string the flattener returns has
\* no newline in it.
C18_OneLine ==
  output.done => \A n \in 1..Len(output.bytes) : output.bytes[n] # LF

\* The key as an add operation emits it on the buffer b at nesting depth
\* depth; the keys of the model have no byte that JSON escapes.
KeyEmitted(b, depth, key) ==
  IF depth = 0
  THEN (IF b # <<>> THEN <<TAB>> ELSE <<>>) \o EscapeTLC(key) \o <<COLON>>
  ELSE (IF b = <<>> \/ b[Len(b)] # LBRACE THEN <<COMMA>> ELSE <<>>)
         \o <<QUOTE>> \o key \o <<QUOTE, COLON>>

\* C19: every add operation first emits the key: at nesting depth 0 a tab
\* if and only if the buffer is not empty, the key with tab, LF and CR
\* escaped, and a colon; at a depth above 0 a comma if and only if the
\* buffer does not end with '{', the key between double quotes, and a colon.
C19_KeySeparator ==
  last.op \in {"AddString", "AddInt64", "AddMarshaler"} =>
    StartsWith(enc[last.inst].bytes,
               last.pre.bytes \o KeyEmitted(last.pre.bytes, last.pre.nestedLevel, last.key))

\* The objects checked out of the pool.
CheckedOut == {i \in Inst : out[i] > 0}

\* C20: when WriteEntry returns after it got the temporary encoder, be it
\* with nil, with the sink's error or with 'incomplete write', the temporary
\* encoder is back in the pool and the objects checked out are the encoders
\* the caller holds, as before the call.
C20_FinalFreed ==
  WriteReturned =>
    /\ last.res \in pool
    /\ out[last.res] = 0
    /\ \A c \in Callers : wr[c].final # last.res
    /\ CheckedOut = own[last.caller]
    /\ \A i \in CheckedOut : out[i] = 1

C20_Witness ==
  /\ WriteReturned
  /\ last.ret = "failed"
  /\ last.res \in pool
  /\ own[last.caller] # {}

\* C21: a WriteEntry call with a sink calls sink.Write once, with the whole
\* line it composed, and returns without calling it again, also after an
\* error or a short write; a WriteEntry call with a nil sink does not call
\* it; no other operation calls it.
C21_OneWrite ==
  [][Performed =>
       IF last'.op = "sink.Write"
       THEN /\ nwrites' = nwrites + 1
            /\ last'.line = enc'[last'.res].bytes
            /\ wr[last'.caller].final = 0
            /\ wr'[last'.caller].final = last'.res
       ELSE /\ nwrites' = nwrites
            /\ (last'.op = "WriteEntry" /\ ~last'.sinkNil) =>
                  (wr[last'.caller].final = last'.res /\ wr'[last'.caller].final = 0)]_vars

C21_Witness ==
  /\ WriteReturned
  /\ last.ret = "incomplete write"
  /\ nwrites = 1

\* The line WriteEntry composes for source encoder e in a temporary encoder
\* that ltsvPool.New has just made.
LineOf(e, msg, lvl, t) == WriteEntryFinal(e, ltsvPoolNew, msg, lvl, t).bytes

EndsWith(s, p) == Len(s) >= Len(p) /\ SubSeq(s, Len(s) - Len(p) + 1, Len(s)) = p

\* C22: WriteEntry (with or without a sink, at the call of sink.Write and at
\* its return) and Clone leave every field of the source encoder as it was,
\* and the line WriteEntry writes is given by the source encoder, the
\* message, the level and the time alone, so that it is the same line at
\* every call, whatever object the pool hands out; the line ends with the
\* fields added to the source encoder.
C22_SourceUnchanged ==
  [][(Performed /\ last'.op \in {"sink.Write", "WriteEntry", "Clone"}) =>
       /\ enc'[last'.inst] = enc[last'.inst]
       /\ last'.op = "sink.Write" =>
            /\ last'.line = LineOf(enc[last'.inst], last'.msg, last'.lvl, last'.t)
            /\ EndsWith(last'.line, enc[last'.inst].bytes \o <<LF>>)]_vars

\* The encoders the callers hold.
Held == UNION {own[c] : c \in Callers}

\* C23: the nesting depth of an encoder a caller holds is never negative and
\* is the number of AddMarshaler callbacks running on that encoder; when
\* AddMarshaler returns, with or without an error, the depth is what it was
\* before the call; an add on an encoder with no callback running, also on
\* one that was cloned, freed and checked out again, writes the field with
\* the top-level grammar (a tab after a non-empty buffer, the key, a colon,
\* the value with tab, LF and CR escaped).
C23_DepthIsRunningCallbacks ==
  /\ \A i \in Held :
       /\ enc[i].nestedLevel >= 0
       /\ enc[i].nestedLevel = Len(calls[i])
  /\ last.op = "AddMarshalerReturn" => enc[last.inst].nestedLevel = last.entry.nestedLevel
  /\ (last.op = "AddString" /\ calls[last.inst] = <<>>) =>
       enc[last.inst].bytes = last.pre.bytes \o KeyEmitted(last.pre.bytes, 0, last.key)
                                \o EscapeTLC(last.val)

(***************************************************************************)
(* The flattener with an output buffer of its own: the statements of       *)
(* formatStacktraceInOneLine in their order, p not sharing the array of    *)
(* buf.  safe records that after every '[', after every buf = buf[n:] and  *)
(* at buffer_too_small the length of p was at most the offset of buf,      *)
(* which is where a p that shares the array has written only over bytes    *)
(* that are not read again.                                                *)
(***************************************************************************)
appendOut(st, x) == [st EXCEPT !.p = @ \o x]

Behind(st) == [st EXCEPT !.safe = @ /\ Len(st.p) <= st.off]

tooSmallOut(st) == [bytes |-> st.p \o buf(st) \o <<DOT, DOT, DOT>>, safe |-> Behind(st).safe]

RECURSIVE frameLoopOut(_)
frameLoopOut(st) ==
  IF Len(buf(st)) = 0 THEN [bytes |-> st.p, safe |-> st.safe]
  ELSE LET s1 == Behind(appendOut(st, <<LBRACKET>>))
           i == IndexByte(buf(s1), LF)
       IN  IF i = 0 - 1 THEN tooSmallOut(s1)
           ELSE LET s2 == appendOut(appendOut(s1, SubSeq(buf(s1), 1, i)), <<SPACE>>)
                IN  IF i + 2 > Len(buf(s2)) THEN tooSmallOut(s2)
                    ELSE LET s3 == Behind(advance(s2, i + 2))
                             k == IndexByte(buf(s3), LF)
                         IN  IF k = 0 - 1 THEN tooSmallOut(s3)
                             ELSE LET s4 == appendOut(appendOut(s3, SubSeq(buf(s3), 1, k)), <<RBRACKET>>)
                                  IN  IF k + 1 > Len(buf(s4)) THEN tooSmallOut(s4)
                                      ELSE LET s5 == Behind(advance(s4, k + 1))
                                           IN  frameLoopOut(IF Len(buf(s5)) > 0
                                                            THEN appendOut(s5, <<COMMA>>) ELSE s5)

RECURSIVE skipLoopOut(_, _, _)
skipLoopOut(st, j, skip) ==
  IF j < 1 + 2 * skip
  THEN LET i == IndexByte(buf(st), LF)
       IN  IF i = 0 - 1 \/ i + 1 > Len(buf(st)) THEN tooSmallOut(st)
           ELSE skipLoopOut(advance(st, i + 1), j + 1, skip)
  ELSE frameLoopOut(st)

SeparateBuffer == skipLoopOut([array |-> input.s, off |-> 0, p |-> <<>>, safe |-> TRUE], 0, input.skip)

\* C24: the flattener writes its output over the array it reads from, and
\* at every step the end of the output is at or before the first byte not
\* yet read, so that what it returns is what the same statements return with
\* an output buffer of their own, for every text and skip count.
C24_InPlaceBehindInput ==
  output.done => (SeparateBuffer.safe /\ output.bytes = SeparateBuffer.bytes)

\* The positions of line that bound its fields: before the first byte, at
\* every tab, and at the last byte.
Bounds(line) == {0, Len(line)} \cup {n \in 1..Len(line) : line[n] = TAB}

\* C25: whatever tabs, newlines and carriage returns the labels, the
\* message and the keys and values added at any nesting depth have in them,
\* the line handed to the sink has exactly one newline, which is its last
\* byte, and no carriage return, and every tab in it separates two fields:
\* it is outside every nested object, and the bytes between two tabs, before
\* the first and after the last are a label or key, a colon and a value.
C25_LineBytes ==
  last.op = "sink.Write" =>
    LET line == last.line
    IN  /\ Len(line) >= 1
        /\ line[Len(line)] = LF
        /\ Count(line, LF) = 1
        /\ Count(line, CR) = 0
        /\ \A n \in 1..Len(line) : line[n] = TAB => OpenBraces(SubSeq(line, 1, n)) = 0
        /\ \A a, b \in Bounds(line) :
             (a < b /\ \A m \in Bounds(line) : ~(a < m /\ m < b)) =>
               \E k \in (a + 1)..(b - 1) : line[k] = COLON

C25_Witness ==
  /\ last.op = "sink.Write"
  /\ TAB \in {last.pre.timeLabel[n] : n \in 1..Len(last.pre.timeLabel)}
  /\ CR \in {last.msg[n] : n \in 1..Len(last.msg)}
  /\ last.pre.nestedLevel > 0
  /\ \E n \in 1..Len(last.pre.bytes) : last.pre.bytes[n] = TAB /\ n < Len(last.pre.bytes) - 8
  /\ Count(last.pre.bytes, BACKSLASH) >= 4

\* C26: the temporary encoder WriteEntry got from the pool has, after its
\* truncation, no bytes and nesting depth 0, whatever object the pool
\* returned, and the line begins with the time, level and message fields in
\* the top-level grammar (label, colon, value, a tab between fields) under
\* the labels of the source encoder.
C26_FinalStartsEmpty ==
  last.op = "sink.Write" =>
    /\ truncate(last.got).bytes = <<>>
    /\ truncate(last.got).nestedLevel = 0
    /\ StartsWith(last.line, EntryFieldsIn("ltsv", last.pre, last.msg, last.lvl, last.t))

====
